---------------------------- MODULE Spec2Model ----------------------------
(***************************************************************************)
(* A model of the edb.cz catalog scraper.                                  *)
(*                                                                         *)
(* Part 1 (specification Spec) is one Group object of src/group.py, the    *)
(* page-count operations validate_num_pages and get_num_pages, stepping    *)
(* from one page fetch to the next against a site.                         *)
(*                                                                         *)
(* A site is either "monotone" (pages 1..site_pages hold listings, every     *)
(* other page holds none) or "arbitrary" (each fetch of a page may answer   *)
(* with or without listings, whatever was answered before).  Every fetch   *)
(* may also end in a transport timeout or in an error (a status other than *)
(* 200, or a page without the divFirmy container).                         *)
(*                                                                         *)
(* Specification SpecRandomCompany is the same Group object under          *)
(* get_random_company(exclude_set).                                        *)
(*                                                                         *)
(* Part 2 (specification SpecSampling) is run_sampling of src/scrape.py:   *)
(* the catalog is fetched, the page-count cache is loaded, the Sampler is  *)
(* built, samples are drawn by Sampler.get_sample until enough are         *)
(* collected, and the cache is stored.  The sections of part 2 are         *)
(* monotone sites.                                                         *)
(***************************************************************************)
EXTENDS Integers, Sequences, FiniteSets, TLC

\* ---------------------------------------------------------------- bounds
\* Largest number of pages of a monotone section.
MaxPages == 52
\* The page number at which the model stops following the bound-finding
\* loop (the code has no such stop).
MaxUpper == 150

\* Largest delay of an HTTPSession and the longest time the model measures,
\* in ticks.
MaxDelay == 3
MaxClock == 7

\* Part 2: largest number of pages of a section.
MaxSitePages == 1
\* Part 2: largest retry budget of a Sampler.
MaxRetries == 2
\* Part 2: largest number of requested samples.
MaxRequested == 1
\* Largest number of listings on a page and of emails on a contact page.
MaxListings == 2
MaxEmails == 1

\* The sections the catalog can list, and the contact URLs of listings.
Sections == {"A", "B"}
Urls == {"u1/kontakt", "u2/kontakt"}
\* A listing div without a link to a contact page.
NoLink == "nolink"

\* ------------------------------------------------------ program constants
\* Optional[int] None of Group.num_pages.
None == -1
\* COMPANIES_PER_PAGE of src/group.py.
COMPANIES_PER_PAGE == 25
\* First probe and step of the bound-finding loop.
PageStep == 50
\* The bisection loop raises once iter exceeds this.
IterCap == 200

VARIABLES
    site_kind,        \* "monotone" or "arbitrary"
    site_pages,       \* monotone site: the number of pages holding listings
    site_last,        \* monotone site: the listings on the last of these pages
    known,            \* the count the Group's last discovery stored (None: none yet)
    num_pages,        \* Group.num_pages (None or a count)
    pc,               \* where the Group's current operation stands
    max_page_lower,   \* get_num_pages local
    max_page_upper,   \* get_num_pages local
    iter,             \* get_num_pages local
    op,               \* the operation running, or the last one that ended
    ret,              \* how the last operation ended
    fresh,            \* the last get_num_pages ran a discovery
    cached_k,         \* num_pages when the last validate_num_pages was called
    fetched,          \* pages requested by the operation so far
    answers,          \* <<page, has listings>> answers the operation received
    exclude_set,      \* get_random_company's argument
    supplied,         \* exclude_set as the caller supplied it
    listing,          \* the listing divs of the page get_random_company fetched
    \* ---- part 2
    s_site,           \* section -> number of pages holding listings
    num_retries,      \* Sampler.num_retries
    requested,        \* requested_samples
    cache_state,      \* the cache file: "ok", "missing" or "garbled"
    cache_file,       \* the cache file's mapping: section -> count or None
    group_map,        \* scrape_groups local: the mapping that was loaded
    groups,           \* Sampler.groups (the sections of the catalog)
    linked,           \* every catalog header links to its section page
    s_num_pages,      \* section -> Group.num_pages
    s_pc,             \* where run_sampling stands
    stage,            \* "start", "loaded" (cache read) or "built" (Sampler built)
    s_exit,           \* how the sampling loop was left: "normal" or "raise"
    collected,        \* collected_samples
    stores,           \* calls of store_group_cache so far
    s_group,          \* get_sample local: the section drawn
    retry,            \* get_sample local: the loop index
    outcomes,         \* how each attempt of the current get_sample ended
    s_result,         \* how the last get_sample ended
    s_lower,          \* get_num_pages local max_page_lower
    s_upper,          \* get_num_pages local max_page_upper
    s_iter,           \* get_num_pages local iter
    page,             \* get_random_company local: the page drawn
    company,          \* the Company last built
    \* ---- Company.scrape_company on its own
    contact_page,     \* the contact page the site serves
    contact_url,      \* scrape_company's argument
    cl_pc,            \* where scrape_company stands
    cl_requests,      \* delayed_get calls of this scrape_company
    cl_variant,       \* the layout whose extraction was used
    cl_result,        \* what scrape_company returned or raised
    \* ---- Group.get_total_companies
    total,            \* what get_total_companies returned
    tot_fetches,      \* page fetches of get_total_companies once the count is known
    \* ---- validate_group_cache; the Group at work is the Group of part 1
    f_fill,           \* fill_cache
    f_sites,          \* section -> number of pages holding listings
    f_file,           \* the cache file: section -> count or None
    f_written,        \* fill_group_cache has written the cache file
    f_groups,         \* groups, as a sequence of sections
    f_counts,         \* section -> num_pages of its Group
    f_idx,            \* index of the Group at work
    f_cache,          \* fill_group_cache local group_cache
    f_failed,         \* the sections whose page fetch ended in an error
    f_pc,             \* where validate_group_cache stands
    \* ---- HTTPSession, time in ticks
    delay,            \* HTTPSession.delay
    h_pc,             \* where delayed_get stands
    h_since,          \* time since the session's last request was issued (None: none yet)
    h_gap,            \* time between the last two requests issued (None: fewer than two)
    h_slept           \* time the last delayed_get slept before its request

pageVars == <<site_last, known, site_kind, site_pages, num_pages, pc, max_page_lower,
              max_page_upper, iter, op, ret, fresh, cached_k, fetched,
              answers>>

grcVars == <<exclude_set, supplied, listing>>

sConst   == <<s_site, num_retries, requested>>
sCache   == <<cache_state, cache_file, group_map>>
sSampler == <<groups, linked, s_num_pages>>
sDriver  == <<stage, s_exit, collected, stores>>
sCall    == <<s_group, retry, outcomes, s_result>>
sLocals  == <<s_lower, s_upper, s_iter>>
sDraw    == <<page, company>>

sRest    == <<sConst, sCache, sSampler, s_pc, sDriver, sCall, sLocals>>

sampVars == <<sRest, sDraw>>

classVars == <<contact_page, contact_url, cl_pc, cl_requests, cl_variant, cl_result>>

totVars == <<total, tot_fetches>>

fillVars == <<f_fill, f_sites, f_file, f_written, f_groups, f_counts, f_idx,
              f_cache, f_failed, f_pc>>

throttleVars == <<delay, h_pc, h_since, h_gap, h_slept>>

extVars == <<classVars, totVars, fillVars, throttleVars>>

\* What the steps of scrape_company leave alone.
classOthers == <<pageVars, grcVars, sampVars, totVars, fillVars, throttleVars>>

vars == <<pageVars, grcVars, sampVars, extVars>>

\* ---------------------------------------------------------- shared parts

\* The listing divs a page with listings can hold: each is the contact URL
\* it links to, or NoLink.
NonEmptyListings ==
    UNION { [1 .. n -> Urls \cup {NoLink}] : n \in 1 .. MaxListings }

\* The page counts of the small sites: small ones, and one that
\* makes the bound-finding loop step.
SitePageCounts == (0 .. MaxSitePages) \cup {PageStep}

\* A contact page: which markers and inner elements it holds, the text of
\* the name element ("None" when the element has no single string), and the
\* number of email links.
ContactPages ==
    [ h3CompanyName : BOOLEAN, contactTable : BOOLEAN,
      divContacts : BOOLEAN, h1 : BOOLEAN, span : BOOLEAN,
      legalName : BOOLEAN, terminated : BOOLEAN,
      name : {"None", "", "Acme"}, emails : 0 .. MaxEmails ]

\* Company.scrape_company: the layout detected, first match wins.
VariantBFirst(c) ==
    IF c.divContacts THEN "B"
    ELSE IF c.h3CompanyName THEN "A"
    ELSE IF c.legalName THEN "C"
    ELSE "unknown"
Variant(c) ==
    IF c.h3CompanyName THEN "A"
    ELSE IF c.divContacts THEN "B"
    ELSE IF c.legalName THEN "C"
    ELSE "unknown"

\* Company.scrape_company on a fetched contact page: the Company built, or
\* an error.
ScrapeCompany(url, c) ==
    LET built(n) == IF c.name = "None"
                      THEN [kind |-> "error", name |-> "None", url |-> url, emails |-> 0]
                      ELSE [kind |-> "company", name |-> c.name, url |-> url, emails |-> n]
        failed   == [kind |-> "error", name |-> "None", url |-> url, emails |-> 0]
    IN  CASE Variant(c) = "A" ->
               IF c.contactTable THEN built(c.emails) ELSE failed
          [] Variant(c) = "B" ->
               IF c.h1 /\ c.span THEN built(c.emails) ELSE failed
          [] Variant(c) = "C" ->
               built(IF c.terminated THEN 0 ELSE c.emails)
          [] OTHER -> failed

\* What one delayed_get of a contact page followed by the classification can
\* produce.
ContactOutcomes(url) ==
    { ScrapeCompany(url, c) : c \in ContactPages }
    \cup { [kind |-> k, name |-> "None", url |-> url, emails |-> 0] :
             k \in {"timeout", "error"} }

\* No Company at hand.
NoCompany == [name |-> "None", url |-> "", emails |-> 0]

\* ------------------------------------------------------------------ site

\* Listings on page p of the monotone site.
MonotoneCount(p) ==
    IF 1 <= p /\ p < site_pages THEN COMPANIES_PER_PAGE
    ELSE IF 1 <= p /\ p = site_pages THEN site_last
    ELSE 0

\* What one delayed_get of page p, followed by the listing-container lookup,
\* can produce: a number of listings, a timeout, or an error.
FetchOutcomes(p) ==
    { [kind |-> "ok", n |-> c] :
        c \in (IF site_kind = "monotone" THEN {MonotoneCount(p)} ELSE {0, 1}) }
    \cup { [kind |-> "timeout", n |-> 0], [kind |-> "error", n |-> 0] }

\* ------------------------------------------------------------- operations

\* The operation ends: control is back at the caller.
Finish(r) ==
    /\ pc' = "idle"
    /\ ret' = r

\* get_num_pages ends, by return or by an exception: its locals are gone.
DropLocals ==
    /\ max_page_lower' = 1
    /\ max_page_upper' = PageStep
    /\ iter' = 0

Request(p, o) ==
    /\ fetched' = fetched \cup {p}
    /\ answers' = IF o.kind = "ok" THEN answers \cup {<<p, o.n > 0>>} ELSE answers

\* validate_num_pages, else branch: the cached count k is discarded.
AfterInvalidKeep(k) == k
AfterInvalid(k) == None

\* validate_num_pages is entered.
ValidateEnter ==
    /\ pc = "idle"
    /\ op' = "validate_num_pages"
    /\ cached_k' = num_pages
    /\ fetched' = {}
    /\ answers' = {}
    /\ IF num_pages # None
         THEN /\ pc' = "val_first"
              /\ ret' = "none"
              /\ UNCHANGED num_pages
         ELSE /\ num_pages' = AfterInvalid(num_pages)
              /\ Finish("False")
    /\ fresh' = FALSE
    /\ UNCHANGED <<site_last, known, site_kind, site_pages, max_page_lower, max_page_upper, iter>>

\* validate_num_pages is called on a Group on its own.
ValidateCall ==
    /\ ValidateEnter
    /\ UNCHANGED <<grcVars, sampVars, extVars>>

\* _is_num_pages_valid, left operand: page num_pages holds listings.
ValidateFirst ==
    /\ pc = "val_first"
    /\ \E o \in FetchOutcomes(num_pages) :
         /\ Request(num_pages, o)
         /\ CASE o.kind = "timeout" -> pc' = "val_sleep" /\ UNCHANGED <<num_pages, ret>>
              [] o.kind = "error"   -> Finish("error") /\ UNCHANGED num_pages
              [] o.kind = "ok" /\ o.n # 0 -> pc' = "val_second" /\ UNCHANGED <<num_pages, ret>>
              [] OTHER -> num_pages' = AfterInvalid(num_pages) /\ Finish("False")
    /\ UNCHANGED <<site_last, known, site_kind, site_pages, max_page_lower, max_page_upper, iter,
                   op, fresh, cached_k>>
    /\ UNCHANGED <<grcVars, sampVars, extVars>>

\* _is_num_pages_valid, right operand: page num_pages + 1 holds none.
ValidateSecond ==
    /\ pc = "val_second"
    /\ \E o \in FetchOutcomes(num_pages + 1) :
         /\ Request(num_pages + 1, o)
         /\ CASE o.kind = "timeout" -> pc' = "val_sleep" /\ UNCHANGED <<num_pages, ret>>
              [] o.kind = "error"   -> Finish("error") /\ UNCHANGED num_pages
              [] o.kind = "ok" /\ o.n = 0 -> Finish("True") /\ UNCHANGED num_pages
              [] OTHER -> num_pages' = AfterInvalid(num_pages) /\ Finish("False")
    /\ UNCHANGED <<site_last, known, site_kind, site_pages, max_page_lower, max_page_upper, iter,
                   op, fresh, cached_k>>
    /\ UNCHANGED <<grcVars, sampVars, extVars>>

\* except httpx.TimeoutException: sleep 60 s, then the while True loop again.
ValidateBackoff ==
    /\ pc = "val_sleep"
    /\ pc' = "val_first"
    /\ UNCHANGED <<site_last, known, site_kind, site_pages, num_pages, max_page_lower, max_page_upper,
                   iter, op, ret, fresh, cached_k, fetched, answers>>
    /\ UNCHANGED <<grcVars, sampVars, extVars>>

\* One pass of the bound-finding loop: the next upper bound after page u
\* answered with listings.
NextUpper(u) == u + PageStep

\* One pass of the bisection loop: the bracket after page mid answered.
BisectKeepMid(lo, hi, nonEmpty) ==
    LET mid == (hi + lo) \div 2
    IN  IF nonEmpty THEN <<mid, hi>> ELSE <<lo, mid - 1>>
Bisect(lo, hi, nonEmpty) ==
    LET mid == (hi + lo) \div 2
    IN  IF nonEmpty THEN <<mid + 1, hi>> ELSE <<lo, mid - 1>>

\* The count the discovery stores once the bracket is empty (lo > hi).
DiscoveredLower(lo, hi) == lo
Discovered(lo, hi) == hi

\* get_num_pages: if self.num_pages is not None, it is returned as it is.
IsCachedNever(k) == FALSE
IsCached(k) == k # None

\* get_num_pages is entered.
GetNumPagesEnter ==
    /\ pc = "idle"
    /\ op' = "get_num_pages"
    /\ fetched' = {}
    /\ answers' = {}
    /\ IF IsCached(num_pages)
         THEN /\ fresh' = FALSE
              /\ Finish("value")
              /\ UNCHANGED <<max_page_lower, max_page_upper>>
         ELSE /\ fresh' = TRUE
              /\ max_page_lower' = 1
              /\ max_page_upper' = PageStep
              /\ pc' = "bound"
              /\ ret' = "none"
    /\ cached_k' = None
    /\ UNCHANGED <<site_last, known, site_kind, site_pages, num_pages, iter>>

\* get_num_pages is called on a Group on its own.
GetNumPagesCall ==
    /\ GetNumPagesEnter
    /\ UNCHANGED <<grcVars, sampVars, extVars>>

\* while self.get_num_companies_on_page(max_page_upper) > 0
BoundProbe ==
    /\ pc = "bound"
    /\ \E o \in FetchOutcomes(max_page_upper) :
         /\ Request(max_page_upper, o)
         /\ CASE o.kind \in {"timeout", "error"} ->
                   Finish(o.kind) /\ DropLocals
              [] o.kind = "ok" /\ o.n > 0 ->
                   /\ pc' = "bound_step"
                   /\ UNCHANGED <<max_page_upper, ret, iter>>
                   /\ UNCHANGED max_page_lower
              [] OTHER ->
                   /\ iter' = 0
                   /\ pc' = "bisect"
                   /\ UNCHANGED <<max_page_lower, max_page_upper, ret>>
    /\ UNCHANGED <<site_last, known, site_kind, site_pages, num_pages, op, fresh, cached_k>>
    /\ UNCHANGED <<grcVars, sampVars, extVars>>

\* The body of the bound-finding loop: max_page_upper += 50.  The code lets
\* max_page_upper grow without limit; the model follows it up to MaxUpper
\* and lets MaxUpper stand for every larger page number, which leaves the
\* loop's control flow as it is (the loop goes on exactly as long as the
\* probed page answers with listings).
BoundStep ==
    /\ pc = "bound_step"
    /\ max_page_upper' = IF NextUpper(max_page_upper) <= MaxUpper
                           THEN NextUpper(max_page_upper)
                           ELSE MaxUpper
    /\ pc' = "bound"
    /\ UNCHANGED <<site_last, known, site_kind, site_pages, num_pages, max_page_lower, iter, op,
                   ret, fresh, cached_k, fetched, answers>>
    /\ UNCHANGED <<grcVars, sampVars, extVars>>

\* One pass of while max_page_lower <= max_page_upper.
BisectProbe ==
    /\ pc = "bisect"
    /\ max_page_lower <= max_page_upper
    /\ LET mid_page == (max_page_upper + max_page_lower) \div 2
       IN  \E o \in FetchOutcomes(mid_page) :
             /\ Request(mid_page, o)
             /\ IF o.kind \in {"timeout", "error"}
                  THEN /\ Finish(o.kind)
                       /\ DropLocals
                  ELSE LET b == Bisect(max_page_lower, max_page_upper, o.n > 0)
                       IN  IF iter + 1 > IterCap
                             THEN /\ Finish("divergence")
                                  /\ DropLocals
                             ELSE /\ max_page_lower' = b[1]
                                  /\ max_page_upper' = b[2]
                                  /\ iter' = iter + 1
                                  /\ UNCHANGED <<pc, ret>>
    /\ UNCHANGED <<site_last, known, site_kind, site_pages, num_pages, op, fresh, cached_k>>
    /\ UNCHANGED <<grcVars, sampVars, extVars>>

\* The bisection loop ends: self.num_pages = max_page_upper is returned.
GetNumPagesReturn ==
    /\ pc = "bisect"
    /\ max_page_lower > max_page_upper
    /\ num_pages' = Discovered(max_page_lower, max_page_upper)
    /\ known' = Discovered(max_page_lower, max_page_upper)
    /\ CASE op = "get_random_company" -> pc' = "grc_draw" /\ UNCHANGED ret
         [] op = "get_total_companies" -> pc' = "tot_fetch" /\ UNCHANGED ret
         [] OTHER -> Finish("value")
    /\ DropLocals
    /\ UNCHANGED <<site_last, site_kind, site_pages, op, fresh, cached_k, fetched, answers>>
    /\ UNCHANGED <<grcVars, sampVars, extVars>>

\* ------------------------------------------------------------ Spec

\* -------------------------------------- get_random_company (src/group.py)

\* What one delayed_get of page p followed by the listing-container lookup
\* can produce for get_company_urls_on_page: the page's listing divs, a
\* timeout, or an error.
ListingOutcomes(p) ==
    { [kind |-> "ok", divs |-> l] :
        l \in (IF site_kind = "monotone"
                 THEN (IF MonotoneCount(p) > 0 THEN NonEmptyListings ELSE { <<>> })
                 ELSE NonEmptyListings \cup { <<>> }) }
    \cup { [kind |-> "timeout", divs |-> <<>>], [kind |-> "error", divs |-> <<>>] }

\* get_company_urls_on_page of src/group.py: the contact URLs of the listing
\* divs that are not in exclude_set, up to the first div without a contact
\* link.
RECURSIVE CompanyUrlsUnfiltered(_, _)
CompanyUrlsUnfiltered(divs, ex) ==
    IF divs = <<>> THEN <<>>
    ELSE IF Head(divs) = NoLink THEN <<>>
    ELSE <<Head(divs)>> \o CompanyUrlsUnfiltered(Tail(divs), ex)
RECURSIVE CompanyUrlsExcluding(_, _)
CompanyUrlsExcluding(divs, ex) ==
    IF divs = <<>> THEN <<>>
    ELSE IF Head(divs) = NoLink THEN <<>>
    ELSE (IF Head(divs) \notin ex THEN <<Head(divs)>> ELSE <<>>)
         \o CompanyUrlsExcluding(Tail(divs), ex)

\* get_random_company(exclude_set) is called; it starts with get_num_pages.
GetRandomCompanyCall ==
    /\ pc = "idle"
    /\ op' = "get_random_company"
    /\ \E ex \in SUBSET Urls :
         /\ exclude_set' = ex
         /\ supplied' = ex
    /\ listing' = <<>>
    /\ page' = 0
    /\ company' = NoCompany
    /\ fetched' = {}
    /\ answers' = {}
    /\ cached_k' = None
    /\ ret' = "none"
    /\ IF num_pages # None
         THEN /\ fresh' = FALSE
              /\ pc' = "grc_draw"
              /\ UNCHANGED <<max_page_lower, max_page_upper>>
         ELSE /\ fresh' = TRUE
              /\ max_page_lower' = 1
              /\ max_page_upper' = PageStep
              /\ pc' = "bound"
    /\ UNCHANGED <<site_last, known, site_kind, site_pages, num_pages, iter, sRest>>
    /\ UNCHANGED extVars

\* page = random.randint(1, num_pages), a ValueError when num_pages < 1.
GrcDrawPage ==
    /\ pc = "grc_draw"
    /\ IF num_pages >= 1
         THEN /\ page' \in 1 .. num_pages
              /\ pc' = "grc_list"
              /\ UNCHANGED ret
         ELSE /\ Finish("error")
              /\ UNCHANGED page
    /\ UNCHANGED <<site_last, known, site_kind, site_pages, num_pages, max_page_lower, max_page_upper,
                   iter, op, fresh, cached_k, fetched, answers, grcVars, sRest,
                   company>>
    /\ UNCHANGED extVars

\* company_urls = self.get_company_urls_on_page(page, exclude_set); one of
\* them is drawn, or None is returned when there is none.
GrcListPage ==
    /\ pc = "grc_list"
    /\ \E o \in ListingOutcomes(page) :
         /\ fetched' = fetched \cup {page}
         /\ listing' = o.divs
         /\ IF o.kind \in {"timeout", "error"}
              THEN Finish(o.kind) /\ UNCHANGED company
              ELSE LET company_urls == CompanyUrlsExcluding(o.divs, exclude_set)
                   IN  IF Len(company_urls) # 0
                         THEN /\ \E i \in 1 .. Len(company_urls) :
                                   company' = [name |-> "None", url |-> company_urls[i],
                                               emails |-> 0]
                              /\ pc' = "grc_contact"
                              /\ UNCHANGED ret
                         ELSE Finish("None") /\ UNCHANGED company
    /\ UNCHANGED <<site_last, known, site_kind, site_pages, num_pages, max_page_lower, max_page_upper,
                   iter, op, fresh, cached_k, answers, exclude_set, supplied, sRest,
                   page>>
    /\ UNCHANGED extVars

\* return Company.scrape_company(self.session, company_url, self)
GrcContactPage ==
    /\ pc = "grc_contact"
    /\ \E o \in ContactOutcomes(company.url) :
         IF o.kind = "company"
           THEN /\ company' = [name |-> o.name, url |-> o.url, emails |-> o.emails]
                /\ Finish("company")
           ELSE /\ company' = NoCompany
                /\ Finish(o.kind)
    /\ UNCHANGED <<site_last, known, site_kind, site_pages, num_pages, max_page_lower, max_page_upper,
                   iter, op, fresh, cached_k, fetched, answers, grcVars, sRest,
                   page>>
    /\ UNCHANGED extVars

\* -------------------------------------- get_total_companies (src/group.py)

\* get_total_companies is not running.
TotalIdle ==
    /\ total = None
    /\ tot_fetches = 0

\* get_total_companies is called; it starts with get_num_pages.
GetTotalCompaniesCall ==
    /\ pc = "idle"
    /\ op' = "get_total_companies"
    /\ total' = None
    /\ tot_fetches' = 0
    /\ fetched' = {}
    /\ answers' = {}
    /\ cached_k' = num_pages
    /\ ret' = "none"
    /\ IF IsCached(num_pages)
         THEN /\ fresh' = FALSE
              /\ pc' = "tot_fetch"
              /\ UNCHANGED <<max_page_lower, max_page_upper>>
         ELSE /\ fresh' = TRUE
              /\ max_page_lower' = 1
              /\ max_page_upper' = PageStep
              /\ pc' = "bound"
    /\ UNCHANGED <<site_last, known, site_kind, site_pages, num_pages, iter>>
    /\ UNCHANGED <<grcVars, sampVars, classVars, fillVars, throttleVars>>

\* The total of a section of k pages whose last page holds n listings.
TotalCompaniesPerPage(k, n) == k * COMPANIES_PER_PAGE + n
TotalCompanies(k, n) == (k - 1) * COMPANIES_PER_PAGE + n

\* num_last_page_companies = self.get_num_companies_on_page(num_pages), then
\* the total is returned (get_num_pages returns the stored count again).
TotalFetch ==
    /\ pc = "tot_fetch"
    /\ tot_fetches' = tot_fetches + 1
    /\ \E o \in FetchOutcomes(num_pages) :
         IF o.kind \in {"timeout", "error"}
           THEN Finish(o.kind) /\ UNCHANGED total
           ELSE /\ total' = TotalCompanies(num_pages, o.n)
                /\ Finish("value")
    /\ UNCHANGED <<site_last, known, site_kind, site_pages, num_pages, max_page_lower,
                   max_page_upper, iter, op, fresh, cached_k, fetched, answers>>
    /\ UNCHANGED <<grcVars, sampVars, classVars, fillVars, throttleVars>>

\* validate_group_cache is not running.
FillIdle ==
    /\ f_fill = FALSE
    /\ f_sites = [g \in Sections |-> 0]
    /\ f_file = [g \in Sections |-> None]
    /\ f_written = FALSE
    /\ f_groups = <<>>
    /\ f_counts = [g \in Sections |-> None]
    /\ f_idx = 0
    /\ f_cache = [g \in Sections |-> None]
    /\ f_failed = {}
    /\ f_pc = "off"

\* ------------------------------------------- HTTPSession (src/http_session.py)

\* No HTTPSession is watched.
ThrottleIdle ==
    /\ delay = 1
    /\ h_pc = "off"
    /\ h_since = None
    /\ h_gap = None
    /\ h_slept = 0

\* t ticks later, measured up to MaxClock.
Later(since, t) ==
    IF since = None THEN None
    ELSE IF since + t > MaxClock THEN MaxClock ELSE since + t

\* Time passes while the caller is busy between two calls, or while the
\* request is in flight.
Tick ==
    /\ h_pc \in {"idle", "in_flight"}
    /\ h_since # None
    /\ h_since < MaxClock
    /\ h_since' = Later(h_since, 1)
    /\ UNCHANGED <<delay, h_pc, h_gap, h_slept>>
    /\ UNCHANGED <<pageVars, grcVars, sampVars, classVars, totVars, fillVars>>

\* delayed_get is called.
DelayedGetCall ==
    /\ h_pc = "idle"
    /\ h_pc' = "sleep"
    /\ h_slept' = 0
    /\ UNCHANGED <<delay, h_since, h_gap>>
    /\ UNCHANGED <<pageVars, grcVars, sampVars, classVars, totVars, fillVars>>

\* The time delayed_get asks time.sleep for, d being self.delay and since
\* the time since the last request.
SleepForRemainder(d, since) ==
    IF since = None \/ since >= d THEN 0 ELSE d - since
SleepFor(d, since) == d

\* time.sleep(self.delay), which sleeps that long or longer, then
\* self.get(url, params) issues the request.
SleepAndGet ==
    /\ h_pc = "sleep"
    /\ \E over \in {0, 1} :
         LET t == SleepFor(delay, h_since) + over
         IN  /\ h_slept' = t
             /\ h_gap' = Later(h_since, t)
    /\ h_since' = 0
    /\ h_pc' = "in_flight"
    /\ UNCHANGED delay
    /\ UNCHANGED <<pageVars, grcVars, sampVars, classVars, totVars, fillVars>>

\* The response arrives or the request times out: delayed_get is over.
DelayedGetReturn ==
    /\ h_pc = "in_flight"
    /\ h_pc' = "idle"
    /\ UNCHANGED <<delay, h_since, h_gap, h_slept>>
    /\ UNCHANGED <<pageVars, grcVars, sampVars, classVars, totVars, fillVars>>

\* ----------------------- validate_group_cache, fill_group_cache (src/group.py)

\* The sections of the catalog in its order.
CatalogOrder == <<"A", "B">>

RECURSIVE CachedOnly(_, _)
\* [group for group in groups if group.num_pages is not None]
CachedOnly(seq, counts) ==
    IF seq = <<>> THEN <<>>
    ELSE (IF counts[Head(seq)] # None THEN <<Head(seq)>> ELSE <<>>)
         \o CachedOnly(Tail(seq), counts)

\* The Group of section g becomes the Group at work.
AtWork(g, counts) ==
    /\ site_pages' = f_sites[g]
    /\ num_pages' = counts[g]
    /\ known' = None
    /\ pc' = "idle"
    /\ op' = "none"
    /\ ret' = "none"
    /\ fresh' = FALSE
    /\ cached_k' = None
    /\ fetched' = {}
    /\ answers' = {}
    /\ UNCHANGED <<site_last, site_kind, max_page_lower, max_page_upper, iter>>

\* No Group is at work.
NoneAtWork ==
    /\ pc' = "off"
    /\ UNCHANGED <<site_last, known, site_kind, site_pages, num_pages, max_page_lower,
                   max_page_upper, iter, op, ret, fresh, cached_k, fetched, answers>>

\* Where validate_group_cache goes after the validation loop.
AfterValidation(fill) == IF fill THEN "fill" ELSE "done"

\* groups = get_groups(session, group_cache_path, not fill_cache): the cache
\* is loaded, the catalog fetched and a Group built per section; a failure
\* of either ends the run.
GetGroups ==
    /\ f_pc = "start"
    /\ \/ /\ f_pc' = "raised"
          /\ NoneAtWork
          /\ UNCHANGED <<f_groups, f_counts, f_idx>>
       \/ LET built == IF f_fill THEN CatalogOrder
                                 ELSE CachedOnly(CatalogOrder, f_file)
          IN  /\ f_groups' = built
              /\ f_counts' = f_file
              /\ f_idx' = 1
              /\ IF built = <<>>
                   THEN f_pc' = AfterValidation(f_fill) /\ NoneAtWork
                   ELSE f_pc' = "validate" /\ AtWork(built[1], f_file)
    /\ UNCHANGED <<f_fill, f_sites, f_file, f_written, f_cache, f_failed>>
    /\ UNCHANGED <<grcVars, sampVars, classVars, totVars, throttleVars>>

\* is_valid = group.validate_num_pages()
ValidateGroup ==
    /\ f_pc = "validate"
    /\ ValidateEnter
    /\ f_pc' = "validating"
    /\ UNCHANGED <<f_fill, f_sites, f_file, f_written, f_groups, f_counts, f_idx,
                   f_cache, f_failed>>
    /\ UNCHANGED <<grcVars, sampVars, classVars, totVars, throttleVars>>

\* validate_num_pages is back: the loop goes to the next Group, or its
\* exception leaves validate_group_cache.
ValidatedGroup ==
    /\ f_pc = "validating"
    /\ pc = "idle"
    /\ LET g      == f_groups[f_idx]
           counts == [f_counts EXCEPT ![g] = num_pages]
       IN  /\ f_counts' = counts
           /\ IF ret = "error"
                THEN /\ f_failed' = f_failed \cup {g}
                     /\ f_pc' = "raised"
                     /\ NoneAtWork
                     /\ UNCHANGED f_idx
                ELSE /\ UNCHANGED f_failed
                     /\ IF f_idx < Len(f_groups)
                          THEN /\ f_idx' = f_idx + 1
                               /\ f_pc' = "validate"
                               /\ AtWork(f_groups[f_idx + 1], counts)
                          ELSE /\ f_pc' = AfterValidation(f_fill)
                               /\ f_idx' = 1
                               /\ IF f_fill
                                    THEN AtWork(f_groups[1], counts)
                                    ELSE NoneAtWork
    /\ UNCHANGED <<f_fill, f_sites, f_file, f_written, f_groups, f_cache>>
    /\ UNCHANGED <<grcVars, sampVars, classVars, totVars, throttleVars>>

\* fill_group_cache: group_cache[group.name] = group.get_num_pages()
FillGroup ==
    /\ f_pc = "fill"
    /\ GetNumPagesEnter
    /\ f_pc' = "filling"
    /\ UNCHANGED <<f_fill, f_sites, f_file, f_written, f_groups, f_counts, f_idx,
                   f_cache, f_failed>>
    /\ UNCHANGED <<grcVars, sampVars, classVars, totVars, throttleVars>>

\* What fill_group_cache does with an exception of get_num_pages: a timeout
\* is slept off and the Group tried again, anything else leaves the loop.
OnFillError(r) == IF r = "timeout" THEN "fill_sleep" ELSE "raised"

\* get_num_pages is back in fill_group_cache.
FilledGroup ==
    /\ f_pc = "filling"
    /\ pc = "idle"
    /\ LET g      == f_groups[f_idx]
           counts == [f_counts EXCEPT ![g] = num_pages]
       IN  /\ f_counts' = counts
           /\ IF ret = "value"
                THEN /\ f_cache' = [f_cache EXCEPT ![g] = num_pages]
                     /\ f_pc' = "fill_next"
                     /\ UNCHANGED f_failed
                ELSE /\ f_pc' = OnFillError(ret)
                     /\ f_failed' = IF ret = "timeout" THEN f_failed
                                                       ELSE f_failed \cup {g}
                     /\ UNCHANGED f_cache
    /\ NoneAtWork
    /\ UNCHANGED <<f_fill, f_sites, f_file, f_written, f_groups, f_idx>>
    /\ UNCHANGED <<grcVars, sampVars, classVars, totVars, throttleVars>>

\* time.sleep(60), then while not filled once more.
FillBackoff ==
    /\ f_pc = "fill_sleep"
    /\ f_pc' = "fill"
    /\ AtWork(f_groups[f_idx], f_counts)
    /\ UNCHANGED <<f_fill, f_sites, f_file, f_written, f_groups, f_counts, f_idx,
                   f_cache, f_failed>>
    /\ UNCHANGED <<grcVars, sampVars, classVars, totVars, throttleVars>>

\* for idx, group in enumerate(groups): the next Group, or the loop is done.
FillNext ==
    /\ f_pc = "fill_next"
    /\ IF f_idx < Len(f_groups)
         THEN /\ f_idx' = f_idx + 1
              /\ f_pc' = "fill"
              /\ AtWork(f_groups[f_idx + 1], f_counts)
         ELSE /\ f_pc' = "dump"
              /\ NoneAtWork
              /\ UNCHANGED f_idx
    /\ UNCHANGED <<f_fill, f_sites, f_file, f_written, f_groups, f_counts, f_cache,
                   f_failed>>
    /\ UNCHANGED <<grcVars, sampVars, classVars, totVars, throttleVars>>

\* json.dump(group_cache, f): the cache file is written anew.
FillDump ==
    /\ f_pc = "dump"
    /\ f_file' = f_cache
    /\ f_written' = TRUE
    /\ f_pc' = "done"
    /\ UNCHANGED <<f_fill, f_sites, f_groups, f_counts, f_idx, f_cache, f_failed>>
    /\ UNCHANGED <<pageVars, grcVars, sampVars, classVars, totVars, throttleVars>>

\* --------------------------------- Company.scrape_company (src/company.py)

\* scrape_company is not running (specifications other than SpecClassifier).
ClassifierIdle ==
    /\ contact_page = [ h3CompanyName |-> FALSE, contactTable |-> FALSE,
                        divContacts |-> FALSE, h1 |-> FALSE, span |-> FALSE,
                        legalName |-> FALSE, terminated |-> FALSE,
                        name |-> "None", emails |-> 0 ]
    /\ contact_url = ""
    /\ cl_pc = "off"
    /\ cl_requests = 0
    /\ cl_variant = "none"
    /\ cl_result = NoCompany

\* Company.scrape_company(session, contact_url, group) is called.
ScrapeCompanyCall ==
    /\ cl_pc = "idle"
    /\ cl_pc' = "fetch"
    /\ cl_requests' = 0
    /\ UNCHANGED <<contact_page, contact_url, cl_variant, cl_result>>
    /\ UNCHANGED classOthers

\* resp = session.delayed_get(contact_url): a timeout or a status other than
\* 200 raises; else the page is classified and the Company built.
ScrapeCompanyFetch ==
    /\ cl_pc = "fetch"
    /\ cl_requests' = cl_requests + 1
    /\ \/ \E k \in {"timeout", "error"} :
            /\ cl_result' = [kind |-> k, name |-> "None", url |-> contact_url,
                             emails |-> 0]
            /\ cl_variant' = "none"
       \/ /\ cl_result' = ScrapeCompany(contact_url, contact_page)
          /\ cl_variant' = Variant(contact_page)
    /\ cl_pc' = "returned"
    /\ UNCHANGED <<contact_page, contact_url>>
    /\ UNCHANGED classOthers

\* ------------------------------------------------- part 2: run_sampling

\* Part 2 at rest (specification Spec leaves it there).
SamplingIdle ==
    /\ s_site = [g \in Sections |-> 0]
    /\ num_retries = 1
    /\ requested = 0
    /\ cache_state = "missing"
    /\ cache_file = [g \in Sections |-> None]
    /\ group_map = [g \in Sections |-> None]
    /\ groups = {}
    /\ linked = TRUE
    /\ s_num_pages = [g \in Sections |-> None]
    /\ s_pc = "off"
    /\ stage = "start"
    /\ s_exit = "normal"
    /\ collected = 0
    /\ stores = 0
    /\ s_group = "A"
    /\ retry = 0
    /\ outcomes = <<>>
    /\ s_result = "pending"
    /\ s_lower = 1
    /\ s_upper = PageStep
    /\ s_iter = 0
    /\ page = 0
    /\ company = [name |-> "None", url |-> "", emails |-> 0]

\* Part 1 at rest (specification SpecSampling leaves it there).
PagesIdle ==
    /\ site_kind = "monotone"
    /\ site_pages = 0
    /\ site_last = COMPANIES_PER_PAGE
    /\ known = None
    /\ num_pages = None
    /\ pc = "off"
    /\ max_page_lower = 1
    /\ max_page_upper = PageStep
    /\ iter = 0
    /\ op = "none"
    /\ ret = "none"
    /\ fresh = FALSE
    /\ cached_k = None
    /\ fetched = {}
    /\ answers = {}
    /\ exclude_set = {}
    /\ supplied = {}
    /\ listing = <<>>

\* What one delayed_get of page p of section g, followed by the
\* listing-container lookup, can produce: the listing divs of the page (each
\* the contact URL it links to, or NoLink), a timeout, or an error.
Listings(g, p) ==
    IF 1 <= p /\ p <= s_site[g] THEN NonEmptyListings ELSE { <<>> }

SFetchOutcomes(g, p) ==
    { [kind |-> "ok", divs |-> l] : l \in Listings(g, p) }
    \cup { [kind |-> "timeout", divs |-> <<>>], [kind |-> "error", divs |-> <<>>] }

\* get_company_urls_on_page of src/scrape.py: the contact URLs of the listing
\* divs, up to the first div without a contact link.
RECURSIVE CompanyUrls(_)
CompanyUrls(divs) ==
    IF divs = <<>> THEN <<>>
    ELSE IF Head(divs) = NoLink THEN <<>>
    ELSE <<Head(divs)>> \o CompanyUrls(Tail(divs))

\* Sampler.scrape_groups: the catalog is fetched and parsed.  A timeout or a
\* status other than 200 ends the run; the catalog lists every section or
\* none, and its headers all link to a section page or one does not.
FetchCatalog ==
    /\ s_pc = "start"
    /\ \/ /\ s_pc' = "raised"
          /\ UNCHANGED <<groups, linked>>
       \/ \E listed \in {Sections, {}} :
            /\ groups' = listed
            /\ linked' \in IF listed = {} THEN {TRUE} ELSE BOOLEAN
            /\ s_pc' = "load_cache"
    /\ UNCHANGED <<sConst, sCache, s_num_pages, sDriver, sCall, sLocals, sDraw>>
    /\ UNCHANGED <<pageVars, grcVars, extVars>>

\* Sampler.scrape_groups: json.load of the cache file; an IOError gives the
\* empty mapping, a file that is no JSON raises out of the run.
LoadCache ==
    /\ s_pc = "load_cache"
    /\ CASE cache_state = "ok" ->
              /\ group_map' = cache_file
              /\ stage' = "loaded"
              /\ s_pc' = "build"
         [] cache_state = "missing" ->
              /\ group_map' = [g \in Sections |-> None]
              /\ stage' = "loaded"
              /\ s_pc' = "build"
         [] OTHER ->
              /\ s_pc' = "raised"
              /\ UNCHANGED <<group_map, stage>>
    /\ UNCHANGED <<sConst, cache_state, cache_file, sSampler, s_exit, collected,
                   stores, sCall, sLocals, sDraw>>
    /\ UNCHANGED <<pageVars, grcVars, extVars>>

\* Sampler.scrape_groups: a Group per catalog header, its count taken from
\* the loaded mapping; group.a["href"] raises on a header without a link.
BuildSampler ==
    /\ s_pc = "build"
    /\ IF linked
         THEN /\ s_num_pages' = [g \in Sections |->
                                   IF g \in groups THEN group_map[g] ELSE None]
              /\ stage' = "built"
              /\ collected' = 0
              /\ s_pc' = "loop"
         ELSE /\ s_pc' = "raised"
              /\ UNCHANGED <<s_num_pages, stage, collected>>
    /\ group_map' = [g \in Sections |-> None]
    /\ UNCHANGED <<sConst, cache_state, cache_file, groups, linked, s_exit, stores,
                   sCall, sLocals, sDraw>>
    /\ UNCHANGED <<pageVars, grcVars, extVars>>

\* Where an exception that leaves the sampling loop goes: the finally clause.
OnLoopExceptionNoFinally == "raised"
OnLoopException == "finally"

\* while collected_samples < requested_samples
LoopCheck ==
    /\ s_pc = "loop"
    /\ IF collected < requested
         THEN s_pc' = "choose" /\ UNCHANGED s_exit
         ELSE s_pc' = "finally" /\ s_exit' = "normal"
    /\ UNCHANGED <<sConst, sCache, sSampler, stage, collected, stores, sCall,
                   sLocals, sDraw>>
    /\ UNCHANGED <<pageVars, grcVars, extVars>>

\* get_sample: group = random.choice(self.groups); IndexError on no groups.
ChooseGroup ==
    /\ s_pc = "choose"
    /\ outcomes' = <<>>
    /\ retry' = 0
    /\ IF groups = {}
         THEN /\ s_result' = "IndexError"
              /\ s_exit' = "raise"
              /\ s_pc' = OnLoopException
              /\ UNCHANGED s_group
         ELSE /\ s_group' \in groups
              /\ s_result' = "pending"
              /\ s_pc' = "attempt"
              /\ UNCHANGED s_exit
    /\ UNCHANGED <<sConst, sCache, sSampler, stage, collected, stores, sLocals, sDraw>>
    /\ UNCHANGED <<pageVars, grcVars, extVars>>

\* An attempt of get_sample ends in an exception, which get_sample catches:
\* after a timeout it sleeps, then the for loop goes on either way.
AttemptFails(kind) ==
    /\ outcomes' = Append(outcomes, kind)
    /\ s_pc' = IF kind = "timeout" THEN "gs_sleep" ELSE "next_retry"
    /\ s_lower' = 1
    /\ s_upper' = PageStep
    /\ s_iter' = 0
    /\ page' = 0
    /\ company' = NoCompany

\* for retry in range(self.num_retries): the next pass, or the loop is used
\* up and get_sample raises "Failed in all retries".  A pass starts with
\* get_random_company's call of get_num_pages.
AttemptStart ==
    /\ s_pc = "attempt"
    /\ IF retry < num_retries
         THEN /\ IF s_num_pages[s_group] # None
                   THEN s_pc' = "draw" /\ UNCHANGED sLocals
                   ELSE /\ s_lower' = 1
                        /\ s_upper' = PageStep
                        /\ s_iter' = 0
                        /\ s_pc' = "s_bound"
              /\ UNCHANGED <<s_result, s_exit>>
         ELSE /\ s_result' = "exhausted"
              /\ s_exit' = "raise"
              /\ s_pc' = OnLoopException
              /\ UNCHANGED sLocals
    /\ UNCHANGED <<sConst, sCache, sSampler, stage, collected, stores, s_group,
                   retry, outcomes, sDraw>>
    /\ UNCHANGED <<pageVars, grcVars, extVars>>

\* get_num_pages of src/scrape.py, bound-finding probe.
SBoundProbe ==
    /\ s_pc = "s_bound"
    /\ \E o \in SFetchOutcomes(s_group, s_upper) :
         CASE o.kind \in {"timeout", "error"} -> AttemptFails(o.kind)
           [] o.kind = "ok" /\ Len(o.divs) > 0 ->
                /\ s_pc' = "s_bound_step"
                /\ UNCHANGED <<outcomes, sLocals, sDraw>>
           [] OTHER ->
                /\ s_iter' = 0
                /\ s_pc' = "s_bisect"
                /\ UNCHANGED <<outcomes, s_lower, s_upper, sDraw>>
    /\ UNCHANGED <<sConst, sCache, sSampler, sDriver, s_group, retry, s_result>>
    /\ UNCHANGED <<pageVars, grcVars, extVars>>

\* get_num_pages of src/scrape.py: max_page_upper += 50.
SBoundStep ==
    /\ s_pc = "s_bound_step"
    /\ s_upper' = NextUpper(s_upper)
    /\ s_pc' = "s_bound"
    /\ UNCHANGED <<sConst, sCache, sSampler, sDriver, sCall, s_lower, s_iter, sDraw>>
    /\ UNCHANGED <<pageVars, grcVars, extVars>>

\* get_num_pages of src/scrape.py, one pass of the bisection loop.
SBisectProbe ==
    /\ s_pc = "s_bisect"
    /\ s_lower <= s_upper
    /\ LET mid_page == (s_upper + s_lower) \div 2
       IN  \E o \in SFetchOutcomes(s_group, mid_page) :
             IF o.kind \in {"timeout", "error"}
               THEN AttemptFails(o.kind)
               ELSE LET b == Bisect(s_lower, s_upper, Len(o.divs) > 0)
                    IN  IF s_iter + 1 > IterCap
                          THEN AttemptFails("error")
                          ELSE /\ s_lower' = b[1]
                               /\ s_upper' = b[2]
                               /\ s_iter' = s_iter + 1
                               /\ UNCHANGED <<s_pc, outcomes, sDraw>>
    /\ UNCHANGED <<sConst, sCache, sSampler, sDriver, s_group, retry, s_result>>
    /\ UNCHANGED <<pageVars, grcVars, extVars>>

\* get_num_pages of src/scrape.py: the count is stored and returned.
SGetNumPagesReturn ==
    /\ s_pc = "s_bisect"
    /\ s_lower > s_upper
    /\ s_num_pages' = [s_num_pages EXCEPT ![s_group] = Discovered(s_lower, s_upper)]
    /\ s_lower' = 1
    /\ s_upper' = PageStep
    /\ s_iter' = 0
    /\ s_pc' = "draw"
    /\ UNCHANGED <<sConst, sCache, groups, linked, sDriver, sCall, sDraw>>
    /\ UNCHANGED <<pageVars, grcVars, extVars>>

\* get_random_company: page = random.randint(1, num_pages), a ValueError
\* when num_pages < 1.
DrawPage ==
    /\ s_pc = "draw"
    /\ IF s_num_pages[s_group] >= 1
         THEN /\ page' \in 1 .. s_num_pages[s_group]
              /\ s_pc' = "list"
              /\ UNCHANGED <<outcomes, sLocals, company>>
         ELSE AttemptFails("error")
    /\ UNCHANGED <<sConst, sCache, sSampler, sDriver, s_group, retry, s_result>>
    /\ UNCHANGED <<pageVars, grcVars, extVars>>

\* get_random_company: the contact URLs of the page drawn; an exception when
\* there is none, else one is drawn and Company.scrape_company fetches and
\* classifies it.  The fetches that lead to the same step are taken together:
\* url_lists holds the URL list of every answer the page can give.
ListPage ==
    /\ s_pc = "list"
    /\ LET fetches   == SFetchOutcomes(s_group, page)
           url_lists == { CompanyUrls(o.divs) : o \in { x \in fetches : x.kind = "ok" } }
       IN  \/ \E o \in { x \in fetches : x.kind \in {"timeout", "error"} } :
                AttemptFails(o.kind)
           \/ /\ \E company_urls \in url_lists : Len(company_urls) = 0
              /\ AttemptFails("no_candidates")
           \/ /\ \E company_url \in
                     UNION { { company_urls[i] : i \in 1 .. Len(company_urls) } :
                             company_urls \in url_lists } :
                   company' = [name |-> "None", url |-> company_url, emails |-> 0]
              /\ s_pc' = "contact"
              /\ page' = 0
              /\ UNCHANGED <<outcomes, sLocals>>
    /\ UNCHANGED <<sConst, sCache, sSampler, sDriver, s_group, retry, s_result>>
    /\ UNCHANGED <<pageVars, grcVars, extVars>>

\* get_sample, zero-email branch: this was the last pass of the loop.
LastRetryNever(r, n) == FALSE
LastRetryOffByOne(r, n) == r = n
LastRetry(r, n) == r + 1 = n

\* get_sample: if len(company.emails) != 0, the Company is returned.
HasEmailsOrNot(n) == TRUE
HasEmails(n) == n # 0

\* Company.scrape_company and the rest of the pass of get_sample.
ContactPage ==
    /\ s_pc = "contact"
    /\ \E o \in ContactOutcomes(company.url) :
         CASE o.kind \in {"timeout", "error"} ->
                /\ AttemptFails(o.kind)
                /\ UNCHANGED <<s_result, retry>>
           [] o.kind = "company" /\ HasEmails(o.emails) ->
                /\ company' = [name |-> o.name, url |-> o.url, emails |-> o.emails]
                /\ outcomes' = Append(outcomes, "company")
                /\ s_result' = "company"
                /\ s_pc' = "emit"
                /\ UNCHANGED <<retry, sLocals, page>>
           [] OTHER ->
                /\ company' = NoCompany
                /\ outcomes' = Append(outcomes, "zero_emails")
                /\ IF LastRetry(retry, num_retries)
                     THEN s_result' = "None" /\ s_pc' = "loop"
                     ELSE s_result' = s_result /\ s_pc' = "next_retry"
                /\ UNCHANGED <<retry, sLocals, page>>
    /\ UNCHANGED <<sConst, sCache, sSampler, sDriver, s_group>>
    /\ UNCHANGED <<pageVars, grcVars, extVars>>

\* time.sleep(60) after a timeout.
Backoff ==
    /\ s_pc = "gs_sleep"
    /\ s_pc' = "next_retry"
    /\ UNCHANGED <<sConst, sCache, sSampler, sDriver, sCall, sLocals, sDraw>>
    /\ UNCHANGED <<pageVars, grcVars, extVars>>

\* The for loop of get_sample takes its next index.
NextRetry ==
    /\ s_pc = "next_retry"
    /\ retry' = retry + 1
    /\ s_pc' = "attempt"
    /\ UNCHANGED <<sConst, sCache, sSampler, sDriver, s_group, outcomes, s_result,
                   sLocals, sDraw>>
    /\ UNCHANGED <<pageVars, grcVars, extVars>>

\* run_sampling: company.to_csv, collected_samples += 1.
Emit ==
    /\ s_pc = "emit"
    /\ collected' = collected + 1
    /\ company' = NoCompany
    /\ s_pc' = "loop"
    /\ UNCHANGED <<sConst, sCache, sSampler, stage, s_exit, stores, sCall, sLocals, page>>
    /\ UNCHANGED <<pageVars, grcVars, extVars>>

\* finally: sampler.store_group_cache, then the run ends, normally or with
\* the exception that left the loop.
StoreGroupCache ==
    /\ s_pc = "finally"
    /\ cache_file' = [g \in Sections |-> IF g \in groups THEN s_num_pages[g] ELSE None]
    /\ cache_state' = "ok"
    /\ stores' = stores + 1
    /\ s_pc' = IF s_exit = "normal" THEN "done" ELSE "raised"
    /\ UNCHANGED <<sConst, group_map, sSampler, stage, s_exit, collected, sCall,
                   sLocals, sDraw>>
    /\ UNCHANGED <<pageVars, grcVars, extVars>>

\* ------------------------------------------------------------ Spec

\* A Group is built from the cache: its count is absent or any cached count.
Init ==
    /\ site_kind \in {"monotone", "arbitrary"}
    /\ site_pages \in 0 .. MaxPages
    /\ site_kind = "arbitrary" => site_pages = 0
    /\ site_last = COMPANIES_PER_PAGE
    /\ known = None
    /\ num_pages \in {None} \cup (0 .. MaxPages + 1)
    /\ pc = "idle"
    /\ max_page_lower = 1
    /\ max_page_upper = PageStep
    /\ iter = 0
    /\ op = "none"
    /\ ret = "none"
    /\ fresh = FALSE
    /\ cached_k = None
    /\ fetched = {}
    /\ answers = {}
    /\ exclude_set = {}
    /\ supplied = {}
    /\ listing = <<>>
    /\ SamplingIdle
    /\ ClassifierIdle
    /\ TotalIdle
    /\ ThrottleIdle
    /\ FillIdle

Next ==
    \/ ValidateCall
    \/ ValidateFirst
    \/ ValidateSecond
    \/ ValidateBackoff
    \/ GetNumPagesCall
    \/ BoundProbe
    \/ BoundStep
    \/ BisectProbe
    \/ GetNumPagesReturn

Spec == Init /\ [][Next]_vars

\* The program goes on whenever it can: a fetch that was issued is answered
\* and the code after it runs.
FairSpec == Spec /\ WF_vars(Next)

\* ------------------------------------------------------ SpecRandomCompany

\* A Group of a section of SitePageCounts pages, built from the cache.
InitRandomCompany ==
    /\ site_kind = "monotone"
    /\ site_pages \in SitePageCounts
    /\ site_last = COMPANIES_PER_PAGE
    /\ known = None
    /\ num_pages \in {None} \cup (0 .. MaxSitePages + 1)
    /\ pc = "idle"
    /\ max_page_lower = 1
    /\ max_page_upper = PageStep
    /\ iter = 0
    /\ op = "none"
    /\ ret = "none"
    /\ fresh = FALSE
    /\ cached_k = None
    /\ fetched = {}
    /\ answers = {}
    /\ exclude_set = {}
    /\ supplied = {}
    /\ listing = <<>>
    /\ SamplingIdle
    /\ ClassifierIdle
    /\ TotalIdle
    /\ ThrottleIdle
    /\ FillIdle

NextRandomCompany ==
    \/ GetRandomCompanyCall
    \/ BoundProbe
    \/ BoundStep
    \/ BisectProbe
    \/ GetNumPagesReturn
    \/ GrcDrawPage
    \/ GrcListPage
    \/ GrcContactPage

SpecRandomCompany == InitRandomCompany /\ [][NextRandomCompany]_vars

\* ------------------------------------------------------------- SpecThrottle

\* An HTTPSession with a delay of 1..MaxDelay ticks that has issued no
\* request yet.
InitThrottle ==
    /\ delay \in 1 .. MaxDelay
    /\ h_pc = "idle"
    /\ h_since = None
    /\ h_gap = None
    /\ h_slept = 0
    /\ PagesIdle
    /\ SamplingIdle
    /\ ClassifierIdle
    /\ total = None
    /\ tot_fetches = 0
    /\ FillIdle

NextThrottle ==
    \/ Tick
    \/ DelayedGetCall
    \/ SleepAndGet
    \/ DelayedGetReturn

SpecThrottle == InitThrottle /\ [][NextThrottle]_vars

\* ----------------------------------------------------------------- SpecFill

\* validate_group_cache starts: the sections of the site, the cache file and
\* the fill flag are its inputs.
InitFill ==
    /\ f_fill \in BOOLEAN
    /\ f_sites \in [Sections -> SitePageCounts]
    /\ f_file \in [Sections -> {None} \cup (0 .. MaxSitePages)]
    /\ f_written = FALSE
    /\ f_groups = <<>>
    /\ f_counts = [g \in Sections |-> None]
    /\ f_idx = 0
    /\ f_cache = [g \in Sections |-> None]
    /\ f_failed = {}
    /\ f_pc = "start"
    /\ PagesIdle
    /\ SamplingIdle
    /\ ClassifierIdle
    /\ TotalIdle
    /\ ThrottleIdle

NextFill ==
    \/ GetGroups
    \/ ValidateGroup
    \/ ValidateFirst
    \/ ValidateSecond
    \/ ValidateBackoff
    \/ ValidatedGroup
    \/ FillGroup
    \/ BoundProbe
    \/ BoundStep
    \/ BisectProbe
    \/ GetNumPagesReturn
    \/ FilledGroup
    \/ FillBackoff
    \/ FillNext
    \/ FillDump

SpecFill == InitFill /\ [][NextFill]_vars

\* ---------------------------------------------------------------- SpecTotal

\* A Group of a section of full pages and a last page of site_last listings;
\* its count is absent or any cached count.
InitTotal ==
    /\ site_kind = "monotone"
    /\ site_pages \in SitePageCounts
    /\ site_last \in 1 .. COMPANIES_PER_PAGE
    /\ known = None
    /\ num_pages \in {None} \cup (0 .. MaxSitePages + 1)
    /\ pc = "idle"
    /\ max_page_lower = 1
    /\ max_page_upper = PageStep
    /\ iter = 0
    /\ op = "none"
    /\ ret = "none"
    /\ fresh = FALSE
    /\ cached_k = None
    /\ fetched = {}
    /\ answers = {}
    /\ exclude_set = {}
    /\ supplied = {}
    /\ listing = <<>>
    /\ SamplingIdle
    /\ ClassifierIdle
    /\ TotalIdle
    /\ ThrottleIdle
    /\ FillIdle

NextTotal ==
    \/ GetTotalCompaniesCall
    \/ BoundProbe
    \/ BoundStep
    \/ BisectProbe
    \/ GetNumPagesReturn
    \/ TotalFetch

SpecTotal == InitTotal /\ [][NextTotal]_vars

\* ---------------------------------------------------------- SpecClassifier

\* A contact page of any make-up is served for the URL handed to
\* scrape_company.
InitClassifier ==
    /\ contact_page \in ContactPages
    /\ contact_url \in Urls
    /\ cl_pc = "idle"
    /\ cl_requests = 0
    /\ cl_variant = "none"
    /\ cl_result = NoCompany
    /\ TotalIdle
    /\ ThrottleIdle
    /\ FillIdle
    /\ PagesIdle
    /\ SamplingIdle

NextClassifier ==
    \/ ScrapeCompanyCall
    \/ ScrapeCompanyFetch

SpecClassifier == InitClassifier /\ [][NextClassifier]_vars

\* ------------------------------------------------------------ SpecSampling

\* A run of run_sampling starts: the sections' pages, the cache file, the
\* retry budget and the number of samples requested are the run's inputs.
InitSampling ==
    /\ PagesIdle
    /\ ClassifierIdle
    /\ TotalIdle
    /\ ThrottleIdle
    /\ FillIdle
    /\ s_site \in [Sections -> SitePageCounts]
    /\ num_retries \in 1 .. MaxRetries
    /\ requested \in 0 .. MaxRequested
    /\ cache_state \in {"ok", "missing", "garbled"}
    /\ cache_file \in [Sections -> {None} \cup (0 .. MaxSitePages + 1)]
    /\ cache_state # "ok" => cache_file = [g \in Sections |-> None]
    /\ group_map = [g \in Sections |-> None]
    /\ groups = {}
    /\ linked = TRUE
    /\ s_num_pages = [g \in Sections |-> None]
    /\ s_pc = "start"
    /\ stage = "start"
    /\ s_exit = "normal"
    /\ collected = 0
    /\ stores = 0
    /\ s_group = "A"
    /\ retry = 0
    /\ outcomes = <<>>
    /\ s_result = "pending"
    /\ s_lower = 1
    /\ s_upper = PageStep
    /\ s_iter = 0
    /\ page = 0
    /\ company = [name |-> "None", url |-> "", emails |-> 0]

NextSampling ==
    \/ FetchCatalog
    \/ LoadCache
    \/ BuildSampler
    \/ LoopCheck
    \/ ChooseGroup
    \/ AttemptStart
    \/ SBoundProbe
    \/ SBoundStep
    \/ SBisectProbe
    \/ SGetNumPagesReturn
    \/ DrawPage
    \/ ListPage
    \/ ContactPage
    \/ Backoff
    \/ NextRetry
    \/ Emit
    \/ StoreGroupCache

SpecSampling == InitSampling /\ [][NextSampling]_vars

\* ---------------------------------------------------------------- claims

\* Page p of the monotone site holds listings.
NonEmpty(p) == MonotoneCount(p) > 0

\* The Pagination Invariant for count k on the monotone site.
PaginationInvariant(k) == NonEmpty(k) /\ ~NonEmpty(k + 1)

\* A fresh discovery has returned a count.
DiscoveryReturned ==
    pc = "idle" /\ op = "get_num_pages" /\ fresh /\ ret = "value"

\* validate_num_pages has returned True.
ValidationPassed ==
    pc = "idle" /\ op = "validate_num_pages" /\ ret = "True"

\* C1 as stated: on every monotone section of n >= 0 pages, a count k reported
\* by a fresh discovery or accepted by validate_num_pages satisfies the
\* Pagination Invariant: page k holds listings and page k + 1 holds none.
C1_PaginationInvariant ==
    (site_kind = "monotone" /\ (DiscoveryReturned \/ ValidationPassed))
        => PaginationInvariant(num_pages)

\* C1 amended: on every monotone section of n pages, a fresh discovery reports
\* k = n, page k + 1 holds no listings and, when n >= 1, page k holds
\* listings (a section without listings is reported as 0 pages); a count k
\* accepted by validate_num_pages is kept and satisfies the Pagination
\* Invariant.
C1_PaginationInvariantAmended ==
    site_kind = "monotone" =>
        /\ DiscoveryReturned =>
             /\ num_pages = site_pages
             /\ ~NonEmpty(num_pages + 1)
             /\ site_pages >= 1 => NonEmpty(num_pages)
        /\ ValidationPassed =>
             /\ num_pages = cached_k
             /\ PaginationInvariant(num_pages)

\* C1 witness: a discovery on a section of more than 50 pages (the
\* bound-finding loop has stepped) has returned.
C1_Witness ==
    site_kind = "monotone" /\ site_pages > PageStep /\ DiscoveryReturned

\* C2, state part: a validation of a cached count k on a monotone site fetches
\* only pages k and k + 1; it returns True with num_pages = k when page k
\* holds listings and page k + 1 holds none, and in every other case in
\* which it returns it returns False with num_pages absent.
C2_Outcome ==
    (site_kind = "monotone" /\ op = "validate_num_pages" /\ cached_k # None) =>
        /\ fetched \subseteq {cached_k, cached_k + 1}
        /\ (pc = "idle" /\ ret = "True") =>
               PaginationInvariant(cached_k) /\ num_pages = cached_k
        /\ (pc = "idle" /\ ret = "False") =>
               ~PaginationInvariant(cached_k) /\ num_pages = None

\* C2, step part: a get_num_pages call that follows a failed validation runs
\* the full discovery (it starts bound-finding) instead of returning a count.
C2_Rediscovery ==
    (pc = "idle" /\ op = "validate_num_pages" /\ ret = "False"
        /\ op' = "get_num_pages") => (pc' = "bound" /\ fresh')

\* C2: validate_num_pages returns True and keeps k exactly when page k holds
\* listings and page k + 1 holds none, fetching only pages k and k + 1;
\* otherwise it returns False and discards k, so that the next get_num_pages
\* call runs a full discovery.
C2_Validation == [] C2_Outcome /\ [][C2_Rediscovery]_vars

\* C2 witness: a cached count was found stale (page k holds listings and so
\* does page k + 1), both pages were fetched, and the count was discarded.
C2_Witness ==
    /\ site_kind = "monotone" /\ op = "validate_num_pages" /\ pc = "idle"
    /\ ret = "False" /\ cached_k # None
    /\ fetched = {cached_k, cached_k + 1}

\* The answers the discovery received are those of no monotone section: a
\* page answered with listings although the same or a lower page answered
\* without.
Oscillated ==
    \E a \in answers, b \in answers : a[2] /\ ~b[2] /\ a[1] >= b[1]

\* C9 as stated: a discovery whose page answers oscillate ends in the
\* iteration-cap fault of the bisection loop, not in a returned count.
C9_DivergenceGuard ==
    (pc = "idle" /\ op = "get_num_pages" /\ fresh /\ Oscillated
        /\ ret \in {"value", "divergence"}) => ret = "divergence"

\* C10 as stated: every discovery ends (it returns a count or raises) after
\* finitely many page fetches, whatever the pages answer.
C10_DiscoveryEnds ==
    [](pc \in {"bound", "bound_step", "bisect"} => <>(pc = "idle"))

\* The last get_sample gave up: it returned None or raised "Failed in all
\* retries".
GaveUp == s_result \in {"None", "exhausted"}

\* The attempts of the current get_sample that ended in kind k.
Ended(kinds) == { i \in DOMAIN outcomes : outcomes[i] \in kinds }

\* C3 as stated: get_sample gives up only after num_retries attempts that
\* ended in a failure other than a timeout (a timeout consumes no retry).
C3_TimeoutKeepsBudget ==
    GaveUp =>
        Cardinality(Ended({"zero_emails", "no_candidates", "error"})) = num_retries

\* Every attempt of the current get_sample so far built a Company without
\* emails.
AllZeroEmails ==
    outcomes # <<>> /\ Ended({"zero_emails"}) = DOMAIN outcomes

\* C4: when every contact page fetched gives a Company without emails,
\* get_sample makes exactly num_retries attempts, then returns None, and
\* never raises.
C4_RetryBudget ==
    AllZeroEmails =>
        /\ s_result \in {"pending", "None"}
        /\ Len(outcomes) <= num_retries
        /\ s_result = "None" <=> Len(outcomes) = num_retries

\* C4 witness: a budget of at least two was used up on Companies without
\* emails and get_sample returned None.
C4_Witness ==
    AllZeroEmails /\ s_result = "None" /\ num_retries >= 2

\* C5 as stated: when every attempt of a get_sample that gave up ended in
\* "no candidates" or "zero emails", get_sample returned None and did not
\* raise.
C5_BenignExhaustion ==
    (GaveUp /\ Ended({"no_candidates", "zero_emails"}) = DOMAIN outcomes)
        => s_result = "None"

\* The run has ended.
Terminated == s_pc \in {"done", "raised"}

C8_StaleCacheNotUsed ==
    s_pc = "list" =>
        LET k == s_num_pages[s_group]
        IN  /\ 1 <= k /\ k <= s_site[s_group]
            /\ ~(1 <= k + 1 /\ k + 1 <= s_site[s_group])

C11_RetryRedrawsSection ==
    [][ ( /\ s_pc = "next_retry"
          /\ outcomes # <<>>
          /\ outcomes[Len(outcomes)] \in {"zero_emails", "no_candidates"} )
        => s_pc' = "choose" ]_vars

\* C12: collected_samples grows only by one and only when a Company with at
\* least one email is forwarded to the sink, a None result leaves it as it
\* is, and the loop ends normally only with collected = requested.
C12_Counting ==
    [][ /\ collected' # collected =>
            \/ s_pc = "build" /\ collected' = 0
            \/ /\ s_pc = "emit"
               /\ s_result = "company"
               /\ company.emails >= 1
               /\ collected' = collected + 1
        /\ s_pc' = "emit" => (company'.emails >= 1 /\ s_result' = "company")
        /\ (s_result' = "None" /\ s_result # "None") => collected' = collected
        /\ (s_pc = "loop" /\ s_pc' = "finally" /\ s_exit' = "normal")
              => collected = requested ]_vars

\* C12 witness: the run ended normally with the requested sample collected
\* after a get_sample attempt that met a Company without emails.
C12_Witness ==
    /\ s_pc = "done" /\ requested >= 1 /\ collected = requested
    /\ outcomes # <<>> /\ outcomes[1] = "zero_emails"

\* C15 as stated: every entry of the cache file at the start of the run is
\* still in the file that store_group_cache writes, with its old count when
\* the section was not rediscovered (a count taken from the cache is never
\* rediscovered in a sampling run).
C15_CacheMerge ==
    [][ (s_pc = "finally" /\ cache_state = "ok")
        => \A g \in Sections :
              cache_file[g] # None => cache_file'[g] = cache_file[g] ]_vars

\* C16 as stated: loading the cache never raises, and a cache file that is
\* missing or cannot be read as a JSON mapping gives the empty mapping.
C16_CacheReadTolerated ==
    [][ s_pc = "load_cache"
        => /\ s_pc' = "build"
           /\ cache_state # "ok" => group_map' = [g \in Sections |-> None] ]_vars

\* scrape_company returned a Company.
Constructed == cl_pc = "returned" /\ cl_result.kind = "company"

\* C17 as stated: every Company constructed has a name that is neither
\* absent nor the empty string.
C17_NoNamelessCompany ==
    Constructed => cl_result.name \notin {"None", ""}

\* C18: the extraction used is A's whenever A's marker is present, B's only
\* when A's is absent and B's present, C's only when A's and B's are absent
\* and C's present; with no marker the call raises, builds no Company, and
\* has fetched the page once.
C18_DetectionOrder ==
    (cl_pc = "returned" /\ cl_result.kind \in {"company", "error"}
       /\ cl_variant # "none") =>
        /\ cl_variant = "A" <=> contact_page.h3CompanyName
        /\ cl_variant = "B" <=>
              (~contact_page.h3CompanyName /\ contact_page.divContacts)
        /\ cl_variant = "C" <=>
              (~contact_page.h3CompanyName /\ ~contact_page.divContacts
                 /\ contact_page.legalName)
        /\ cl_variant = "unknown" <=>
              (~contact_page.h3CompanyName /\ ~contact_page.divContacts
                 /\ ~contact_page.legalName)
        /\ cl_variant = "unknown" => (cl_result.kind = "error" /\ cl_requests = 1)
        /\ (contact_page.h3CompanyName /\ ~contact_page.contactTable)
              => cl_result.kind = "error"
        /\ (~contact_page.h3CompanyName /\ contact_page.divContacts
              /\ ~(contact_page.h1 /\ contact_page.span))
              => cl_result.kind = "error"

\* C18 witness: a page with the markers of all three layouts, well formed
\* as B and C but without A's contact table, was classified.
C18_Witness ==
    /\ cl_pc = "returned" /\ cl_variant = "A" /\ cl_result.kind = "error"
    /\ contact_page.divContacts /\ contact_page.h1 /\ contact_page.span
    /\ contact_page.legalName /\ contact_page.name = "Acme"

\* The Group is running a bound-finding or bisection probe.
Probing == pc \in {"bound", "bound_step", "bisect"}

\* What holds of every run that follows a discovery of count known on a
\* section whose pages do not change.
SecondRun ==
    /\ ~Probing
    /\ (op = "get_num_pages" /\ pc = "idle" /\ ret = "value" /\ ~fresh)
          => (num_pages = known /\ fetched = {})
    /\ op = "validate_num_pages" => fetched \subseteq {known, known + 1}
    /\ (op = "validate_num_pages" /\ pc = "idle" /\ ret \in {"True", "False"})
          => (ret = "True" /\ num_pages = known)

\* C14 as stated: once a discovery has stored k, a later run returns k and
\* issues no probe - at most the validation fetches of pages k and k+1.
C14_Idempotence ==
    (site_kind = "monotone" /\ known # None) => SecondRun

\* C14 amended: the same for a section with at least one page of listings.
C14_IdempotenceAmended ==
    (site_kind = "monotone" /\ known # None /\ known >= 1) => SecondRun

\* C14 witness: after a discovery, a validation passed on two fetches.
C14_Witness ==
    /\ site_kind = "monotone" /\ known >= 1
    /\ op = "validate_num_pages" /\ pc = "idle" /\ ret = "True"
    /\ fetched = {known, known + 1}

\* C19: on a section of n >= 1 pages, full but for the last, whose count the
\* Group holds right or not at all, get_total_companies returns
\* (n - 1) * 25 + c, with exactly one fetch, of page n, once the count is known.
C19_TotalCount ==
    ( /\ op = "get_total_companies" /\ pc = "idle" /\ ret = "value"
      /\ site_pages >= 1 /\ cached_k \in {None, site_pages} ) =>
        /\ total = (site_pages - 1) * 25 + site_last
        /\ tot_fetches = 1
        /\ cached_k = site_pages => fetched = {}

\* C19 witness: the spec's example, more than one page and a last page of
\* seven listings, its count discovered by the call.
C19_Witness ==
    /\ op = "get_total_companies" /\ pc = "idle" /\ ret = "value"
    /\ site_pages >= 2 /\ site_last = 7 /\ cached_k = None
    /\ total = (site_pages - 1) * 25 + 7

\* The sections of f_groups.
GroupSet == { f_groups[i] : i \in DOMAIN f_groups }

\* C13 as stated: when a page fetch of one section fails with an error
\* while validate_group_cache validates and fills, the run still ends with
\* the count of every other section written to the cache file.
C13_SectionIsolation ==
    (f_fill /\ f_pc \in {"done", "raised"} /\ f_failed # {}) =>
        /\ f_written
        /\ \A g \in GroupSet \ f_failed : f_file[g] # None

\* C20: two requests of a session are never issued less than delay apart,
\* and every request is preceded by a sleep of the full delay, however long
\* the session was idle before the call.
C20_Throttle ==
    /\ h_gap # None => h_gap >= delay
    /\ h_pc = "in_flight" => h_slept >= delay

\* C20 witness: a request was issued after a pause longer than the delay,
\* and it was still preceded by the sleep.
C20_Witness ==
    /\ h_pc = "in_flight" /\ h_gap # None
    /\ h_gap - h_slept > delay /\ delay >= 2

\* The upper end U of the bracket [1, U] that bound-finding handed to the
\* bisection: the largest page this get_num_pages has fetched (a midpoint
\* never exceeds the bracket).
BracketUpper == CHOOSE u \in fetched : \A p \in fetched : p <= u

\* floor(log2(n)) for n >= 1.
RECURSIVE Log2Floor(_)
Log2Floor(n) == IF n <= 1 THEN 0 ELSE 1 + Log2Floor(n \div 2)

\* The same page answered once with and once without listings.
Inconsistent == \E p \in fetched : <<p, TRUE>> \in answers /\ <<p, FALSE>> \in answers

\* A pass of the bisection loop that goes back to the loop test strictly
\* shrinks max_page_upper - max_page_lower and counts one iteration.
C21_Shrinks ==
    (pc = "bisect" /\ pc' = "bisect" /\ iter' # iter)
        => /\ max_page_upper' - max_page_lower' < max_page_upper - max_page_lower
           /\ iter' = iter + 1

\* While the bisection runs, the bracket holds at most U / 2^iter pages and
\* iter is at most floor(log2(U)) + 1, which is below the cap.
C21_Bounded ==
    (pc = "bisect")
        => /\ fetched # {}
           /\ max_page_upper - max_page_lower + 1 >= 0
           /\ (max_page_upper - max_page_lower + 1) * 2 ^ iter <= BracketUpper
           /\ iter <= Log2Floor(BracketUpper) + 1
           /\ iter <= IterCap

\* C21: in get_num_pages, once bound-finding has produced the bracket
\* [1, U], every bisection pass strictly reduces hi - lo whatever the probed
\* page answers, the loop is left with lo > hi after at most
\* floor(log2(U)) + 1 passes, and the more-than-200-iterations fault is
\* never raised.
C21_BisectionShrinks ==
    /\ [] C21_Bounded
    /\ [] (ret # "divergence")
    /\ [][C21_Shrinks]_vars

\* C21 witness: on a site that answered the same page both ways, the
\* bisection of the bracket [1, U] with U > 50 has emptied the bracket in
\* exactly floor(log2(U)) + 1 passes.
C21_Witness ==
    /\ pc = "bisect" /\ site_kind = "arbitrary"
    /\ max_page_lower > max_page_upper
    /\ BracketUpper > PageStep
    /\ iter = Log2Floor(BracketUpper) + 1
    /\ Inconsistent

\* The last get_sample used all num_retries passes of its loop without
\* returning a Company.
UsedUp == GaveUp /\ Len(outcomes) = num_retries

\* C22: when get_sample (budget r >= 1) uses all r passes of its loop
\* without returning a Company, it returns None if and only if the r-th
\* pass built a Company without emails, and raises "Failed in all retries"
\* if the r-th pass ended in a timeout or another exception, whatever the
\* passes 1 .. r-1 did.
C22_LastAttemptDecides ==
    /\ GaveUp => UsedUp
    /\ UsedUp =>
          /\ num_retries >= 1
          /\ s_result = "None" <=> outcomes[num_retries] = "zero_emails"
          /\ outcomes[num_retries] \in {"timeout", "error", "no_candidates"}
                => s_result = "exhausted"
    /\ (Len(outcomes) = num_retries /\ outcomes[num_retries] = "zero_emails")
          => s_result = "None"

\* C22 witness: with a budget of two, the first pass ended in a timeout,
\* the second built a Company without emails, and get_sample returned None.
C22_Witness ==
    /\ num_retries = 2 /\ UsedUp
    /\ outcomes = <<"timeout", "zero_emails">>
    /\ s_result = "None"

=============================================================================
